---- MODULE Spec2Model ----
(***************************************************************************)
(* Carrier Relationship Viewer (src/line-of-business.py).                  *)
(*                                                                         *)
(* Spec follows load_and_process_data step by step: the file is read       *)
(* into a table, the header is trimmed and validated, the rows are folded  *)
(* one by one into carrier_data and the four global sets, and the sets are *)
(* finally materialised as sorted lists.  The download rows of the main    *)
(* script are built from the finished index.                               *)
(*                                                                         *)
(* Session follows the browser session: each interaction of the user with  *)
(* the uploader or a widget reruns the script, which loads the index       *)
(* through the memo table, applies the sidebar filters and the search,     *)
(* reads the carrier multiselect and builds the download rows and the      *)
(* network graph.                                                          *)
(*                                                                         *)
(* Text is modelled character by character: a Python str is a sequence of  *)
(* one-character strings, so that strip, split, join and the ordering of   *)
(* sorted() are computed and not assumed.                                  *)
(***************************************************************************)
EXTENDS Integers, Sequences, FiniteSets, TLC

VARIABLES
    pc,                       \* position of the script run
    df,                       \* "None" or "DataFrame"
    columns,                  \* df.columns
    rows,                     \* the rows df.iterrows() has yielded so far
    carrier_data,
    all_brokers_to,
    all_brokers_through,
    all_broker_entities,
    all_relationship_owners,
    error,                    \* the column names shown by st.error
    exception,                \* the exception that ended the run, if any
    download_rows,
    uploaded_file,            \* what st.file_uploader returns
    cache,                    \* the memo table of @st.cache_data
    session_state,            \* st.session_state: the six widget keys
    view                      \* what the last run of the script computed

vars == <<pc, df, columns, rows, carrier_data, all_brokers_to,
          all_brokers_through, all_broker_entities, all_relationship_owners,
          error, exception, download_rows, uploaded_file, cache,
          session_state, view>>

\* The state of the browser session across reruns of the script.
session_vars == <<uploaded_file, cache, session_state, view>>

(***************************************************************************)
(* Bounds                                                                  *)
(***************************************************************************)
\* The longest table the model reads.
MaxRows == 2

(***************************************************************************)
(* Text                                                                    *)
(***************************************************************************)
\* Every character the model uses, in ascending code point order.
AsciiOrder ==
    <<" ", ",", "B", "C", "D", "I", "U", "a", "b", "d", "e", "f", "g", "h",
      "i", "k", "l", "m", "n", "o", "p", "r", "s", "t", "u", "w", "x", "y">>

Ord(c) == CHOOSE i \in 1..Len(AsciiOrder) : AsciiOrder[i] = c

Range(s) == {s[i] : i \in 1..Len(s)}

\* Python's str < str: the first differing character decides, a proper
\* prefix is smaller.
RECURSIVE StrLess(_, _)
StrLess(a, b) ==
    IF b = <<>> THEN FALSE
    ELSE IF a = <<>> THEN TRUE
    ELSE IF Head(a) = Head(b) THEN StrLess(Tail(a), Tail(b))
    ELSE Ord(Head(a)) < Ord(Head(b))

IsSpace(c) == c = " "

RECURSIVE LStrip(_)
LStrip(s) == IF s # <<>> /\ IsSpace(Head(s)) THEN LStrip(Tail(s)) ELSE s

RECURSIVE RStrip(_)
RStrip(s) ==
    IF s # <<>> /\ IsSpace(s[Len(s)]) THEN RStrip(SubSeq(s, 1, Len(s) - 1)) ELSE s

\* str.strip()
Strip(s) == RStrip(LStrip(s))

\* str.split(','): the pieces between commas, empty pieces included.
RECURSIVE Split(_)
Split(s) ==
    IF \E i \in 1..Len(s) : s[i] = ","
    THEN LET i == CHOOSE j \in 1..Len(s) :
                      s[j] = "," /\ \A k \in 1..(j - 1) : s[k] # ","
         IN  <<SubSeq(s, 1, i - 1)>> \o Split(SubSeq(s, i + 1, Len(s)))
    ELSE <<s>>

\* A join that puts a blank, and no comma, between the items.
RECURSIVE JoinBlank(_)
JoinBlank(l) ==
    IF l = <<>> THEN <<>>
    ELSE IF Len(l) = 1 THEN l[1]
    ELSE l[1] \o <<" ">> \o JoinBlank(Tail(l))

\* ", ".join(list)
RECURSIVE Join(_)
Join(l) ==
    IF l = <<>> THEN <<>>
    ELSE IF Len(l) = 1 THEN l[1]
    ELSE l[1] \o <<",", " ">> \o Join(Tail(l))

\* A sort in descending order.
SortedDescending(S) ==
    LET RECURSIVE Desc(_)
        Desc(T) ==
            IF T = {} THEN <<>>
            ELSE LET m == CHOOSE x \in T : \A y \in T : x = y \/ StrLess(y, x)
                 IN  <<m>> \o Desc(T \ {m})
    IN  Desc(S)

\* sorted(list(a_set))
RECURSIVE Sorted(_)
Sorted(S) ==
    IF S = {} THEN <<>>
    ELSE LET m == CHOOSE x \in S : \A y \in S : x = y \/ StrLess(x, y)
         IN  <<m>> \o Sorted(S \ {m})

(***************************************************************************)
(* Cells of the table                                                      *)
(***************************************************************************)
\* A cell is either missing (pandas NaN) or holds text.
NaN == [na |-> TRUE, text |-> <<>>]
Text(s) == [na |-> FALSE, text |-> s]

\* pd.notna(value)
NotNa(cell) == ~cell.na

\* str(value): a missing value prints as "nan"
Str(cell) == IF cell.na THEN <<"n", "a", "n">> ELSE cell.text

UnnamedCarrier ==
    <<"U", "n", "n", "a", "m", "e", "d", " ", "C", "a", "r", "r", "i", "e", "r">>

ColCarrier == <<"C", "a", "r", "r", "i", "e", "r">>
ColBrokersTo == <<"B", "r", "o", "k", "e", "r", "s", " ", "t", "o">>
ColBrokersThrough ==
    <<"B", "r", "o", "k", "e", "r", "s", " ", "t", "h", "r", "o", "u", "g", "h">>
ColBrokerEntityOf ==
    <<"b", "r", "o", "k", "e", "r", " ", "e", "n", "t", "i", "t", "y", " ", "o", "f">>
ColRelationshipOwner ==
    <<"r", "e", "l", "a", "t", "i", "o", "n", "s", "h", "i", "p", " ",
      "o", "w", "n", "e", "r">>

expected_columns ==
    <<ColCarrier, ColBrokersTo, ColBrokersThrough, ColBrokerEntityOf,
      ColRelationshipOwner>>

\* The keys under which a row and a carrier entry hold the four relationship
\* fields (expected_columns[1:]).
RelationKeys == <<"Brokers to", "Brokers through", "broker entity of", "relationship owner">>
ListKeys == {"Brokers to", "Brokers through"}
ScalarKeys == {"broker entity of", "relationship owner"}
RowKeys == {"Carrier"} \cup Range(RelationKeys)

(***************************************************************************)
(* Header validation                                                       *)
(***************************************************************************)
\* df.columns.str.strip()
StripAll(cols) == [i \in 1..Len(cols) |-> Strip(cols[i])]

\* A report that names the first missing column only.
FirstMissingOnly(cols) ==
    LET miss == SelectSeq(expected_columns, LAMBDA col : col \notin Range(cols))
    IN  IF miss = <<>> THEN <<>> ELSE <<miss[1]>>

\* [col for col in expected_columns if col not in df.columns]
MissingCols(cols) == SelectSeq(expected_columns, LAMBDA col : col \notin Range(cols))

(***************************************************************************)
(* One row                                                                 *)
(***************************************************************************)
\* A carrier key without the `if not carrier` fallback.
NoCollapse(cell) == IF NotNa(cell) THEN Strip(Str(cell)) ELSE UnnamedCarrier

\* The carrier key of a row: the stripped text, or the sentinel when the
\* cell is missing or strips to nothing.
ResolveCarrier(cell) ==
    LET carrier == IF NotNa(cell) THEN Strip(Str(cell)) ELSE UnnamedCarrier
    IN  IF carrier = <<>> THEN UnnamedCarrier ELSE carrier

\* pd.isna(row[col]) or not str(row[col]).strip()
IsBlankCell(cell) == ~NotNa(cell) \/ Strip(Str(cell)) = <<>>

\* A loop without the blank-row `continue`.
NeverSkip(row) == FALSE

\* The test that makes the loop `continue`.
SkipRow(row) ==
    /\ ResolveCarrier(row["Carrier"]) = UnnamedCarrier
    /\ \A i \in 1..Len(RelationKeys) : IsBlankCell(row[RelationKeys[i]])

\* str(row[col]).strip() if pd.notna(row[col]) else ""
CellValue(cell) == IF NotNa(cell) THEN Strip(Str(cell)) ELSE <<>>

\* [b.strip() for b in val.split(',') if b.strip()]
BrokerList(val) ==
    LET pieces == Split(val)
        stripped == [i \in 1..Len(pieces) |-> Strip(pieces[i])]
    IN  SelectSeq(stripped, LAMBDA b : b # <<>>)

\* A split that keeps the pieces as they are, blanks included.
BrokersUnstripped(cell) ==
    LET val == CellValue(cell)
    IN  IF val # <<>>
        THEN Range(SelectSeq(Split(val), LAMBDA b : Strip(b) # <<>>))
        ELSE {}

\* What a 'Brokers to' / 'Brokers through' cell adds.
BrokersOf(cell) ==
    LET val == CellValue(cell)
    IN  IF val # <<>> THEN Range(BrokerList(val)) ELSE {}

\* A scalar cell split on commas like a broker list.
ScalarSplit(cell) == BrokersOf(cell)

\* What a 'broker entity of' / 'relationship owner' cell adds.
ScalarOf(cell) ==
    LET val == CellValue(cell)
    IN  IF val # <<>> THEN {val} ELSE {}

EmptyIndex == [k \in {} |-> {}]

\* The entry a carrier gets when it is first met.
NewEntry ==
    [k \in Range(RelationKeys) \cup {"original_rows"} |->
        IF k = "original_rows" THEN <<>> ELSE {}]

EmptyState ==
    [carrier_data |-> EmptyIndex,
     all_brokers_to |-> {},
     all_brokers_through |-> {},
     all_broker_entities |-> {},
     all_relationship_owners |-> {}]

\* A loop body that assigns a row's tokens to the entry instead of adding them.
ProcessRowOverwrite(st, index, row) ==
    LET carrier == ResolveCarrier(row["Carrier"])
        to == BrokersOf(row["Brokers to"])
        through == BrokersOf(row["Brokers through"])
        entity == ScalarOf(row["broker entity of"])
        owner == ScalarOf(row["relationship owner"])
        old == IF carrier \in DOMAIN st.carrier_data
               THEN st.carrier_data[carrier] ELSE NewEntry
        new == [k \in DOMAIN NewEntry |->
                   CASE k = "Brokers to" -> to
                     [] k = "Brokers through" -> through
                     [] k = "broker entity of" -> entity
                     [] k = "relationship owner" -> owner
                     [] OTHER -> Append(old[k], index)]
    IN  IF SkipRow(row) THEN st
        ELSE [carrier_data |->
                 [c \in DOMAIN st.carrier_data \cup {carrier} |->
                     IF c = carrier THEN new ELSE st.carrier_data[c]],
              all_brokers_to |-> st.all_brokers_to \cup to,
              all_brokers_through |-> st.all_brokers_through \cup through,
              all_broker_entities |-> st.all_broker_entities \cup entity,
              all_relationship_owners |-> st.all_relationship_owners \cup owner]

\* A loop body that adds the 'Brokers through' tokens to all_brokers_to.
ProcessRowThroughIntoTo(st, index, row) ==
    LET carrier == ResolveCarrier(row["Carrier"])
        to == BrokersOf(row["Brokers to"])
        through == BrokersOf(row["Brokers through"])
        entity == ScalarOf(row["broker entity of"])
        owner == ScalarOf(row["relationship owner"])
        old == IF carrier \in DOMAIN st.carrier_data
               THEN st.carrier_data[carrier] ELSE NewEntry
        new == [k \in DOMAIN NewEntry |->
                   CASE k = "Brokers to" -> old[k] \cup to
                     [] k = "Brokers through" -> old[k] \cup through
                     [] k = "broker entity of" -> old[k] \cup entity
                     [] k = "relationship owner" -> old[k] \cup owner
                     [] OTHER -> Append(old[k], index)]
    IN  IF SkipRow(row) THEN st
        ELSE [carrier_data |->
                 [c \in DOMAIN st.carrier_data \cup {carrier} |->
                     IF c = carrier THEN new ELSE st.carrier_data[c]],
              all_brokers_to |-> st.all_brokers_to \cup to \cup through,
              all_brokers_through |-> st.all_brokers_through,
              all_broker_entities |-> st.all_broker_entities \cup entity,
              all_relationship_owners |-> st.all_relationship_owners \cup owner]

\* The body of `for index, row in df.iterrows()`.
ProcessRow(st, index, row) ==
    LET carrier == ResolveCarrier(row["Carrier"])
        to == BrokersOf(row["Brokers to"])
        through == BrokersOf(row["Brokers through"])
        entity == ScalarOf(row["broker entity of"])
        owner == ScalarOf(row["relationship owner"])
        old == IF carrier \in DOMAIN st.carrier_data
               THEN st.carrier_data[carrier] ELSE NewEntry
        new == [k \in DOMAIN NewEntry |->
                   CASE k = "Brokers to" -> old[k] \cup to
                     [] k = "Brokers through" -> old[k] \cup through
                     [] k = "broker entity of" -> old[k] \cup entity
                     [] k = "relationship owner" -> old[k] \cup owner
                     [] OTHER -> Append(old[k], index)]
    IN  IF SkipRow(row) THEN st
        ELSE [carrier_data |->
                 [c \in DOMAIN st.carrier_data \cup {carrier} |->
                     IF c = carrier THEN new ELSE st.carrier_data[c]],
              all_brokers_to |-> st.all_brokers_to \cup to,
              all_brokers_through |-> st.all_brokers_through \cup through,
              all_broker_entities |-> st.all_broker_entities \cup entity,
              all_relationship_owners |-> st.all_relationship_owners \cup owner]

\* Convert sets to sorted lists for consistent display.
SortEntries(cd) ==
    [c \in DOMAIN cd |->
        [k \in DOMAIN cd[c] |->
            IF k = "original_rows" THEN cd[c][k] ELSE Sorted(cd[c][k])]]

\* The whole loop over a table, followed by the sort: what the function
\* returns for the rows `table`.
RECURSIVE FoldRows(_)
FoldRows(table) ==
    IF table = <<>> THEN EmptyState
    ELSE ProcessRow(FoldRows(SubSeq(table, 1, Len(table) - 1)),
                    Len(table) - 1, table[Len(table)])

LoadAndProcess(table) ==
    LET st == FoldRows(table)
    IN  [st EXCEPT !.carrier_data = SortEntries(st.carrier_data)]

\* One entry of download_rows.
DownloadRow(carrier, info) ==
    [k \in RowKeys |->
        IF k = "Carrier" THEN carrier ELSE Join(info[k])]

(***************************************************************************)
(* Inputs                                                                  *)
(***************************************************************************)
\* file_type = uploaded_file.name.split('.')[-1]
FileTypes == {"csv", "xlsx", "CSV"}

ExtraColumn == <<"I", "D">>

Padded(col) == <<" ">> \o col \o <<" ">>

\* Headers of uploaded tables: any subset of the required columns, written
\* exactly or with surrounding blanks, with or without one more column.
Headers ==
    {LET present == SelectSeq(expected_columns, LAMBDA col : col \in S)
         written == [i \in 1..Len(present) |->
                        IF padded THEN Padded(present[i]) ELSE present[i]]
     IN  IF extra THEN <<ExtraColumn>> \o written ELSE written
        : S \in SUBSET Range(expected_columns),
          padded \in BOOLEAN, extra \in BOOLEAN}

CarrierCells ==
    {NaN, Text(<<" ">>), Text(<<" ", "a">>)}

\* The cells a row fills in, one relationship column at a time.
FilledCells(k) ==
    CASE k = "Brokers to" ->
            {Text(<<"y", ",", " ", "x">>), Text(<<"x">>), Text(<<",">>)}
      [] k = "Brokers through" -> {Text(<<"x">>), Text(<<" ">>)}
      [] k = "broker entity of" -> {Text(<<" ", "e">>), Text(<<"f">>)}
      [] k = "relationship owner" -> {Text(<<"d", ",", "e">>), Text(<<" ">>)}

\* A row with every relationship cell filled in.
FullRelations ==
    [k \in Range(RelationKeys) |->
        CASE k = "Brokers to" -> Text(<<"y", ",", " ", "x">>)
          [] k = "Brokers through" -> Text(<<"x">>)
          [] k = "broker entity of" -> Text(<<" ", "e">>)
          [] k = "relationship owner" -> Text(<<"f">>)]

\* The relationship cells of a row: all missing, one filled in, or all
\* filled in.
Relations ==
    {[k \in Range(RelationKeys) |-> NaN], FullRelations}
    \cup UNION {{[k \in Range(RelationKeys) |-> IF k = k1 THEN cell ELSE NaN] :
                    cell \in FilledCells(k1)} : k1 \in Range(RelationKeys)}

\* The rows a table may hold.
Rows ==
    {[k \in RowKeys |-> IF k = "Carrier" THEN carrier ELSE rel[k]] :
        carrier \in CarrierCells, rel \in Relations}

(***************************************************************************)
(* The run of the script                                                   *)
(***************************************************************************)
\* uploaded_file when the uploader is empty: None.
NoFile == [type |-> "None", table |-> <<>>]

\* st.session_state as lines 169-180 initialise it.  The four filter values
\* are lists the script only tests for emptiness and membership: they are
\* modelled as sets.
DefaultSessionState ==
    [filter_brokers_to_val |-> {},
     filter_brokers_through_val |-> {},
     filter_broker_entity_val |-> {},
     filter_relationship_owner_val |-> {},
     carrier_search_input_val |-> <<>>,
     carrier_multiselect_val |-> <<>>]

\* The messages of st.info / st.warning the script can show.
MsgUpload == "Please upload your Carrier Relationships file"
MsgFound == "Found carriers matching your search and filters"
MsgAdjust == "Adjust filters or search query to find more carriers"
MsgSelect == "Please select one or more carriers"
MsgNoSelectedData == "No data available for the selected carriers"
MsgNoNetworkData ==
    "Upload data and apply filters to see the network visualization"

\* What a run of the script has computed so far: nothing, at its start.
EmptyView ==
    [status |-> "running",
     widgets |-> {},
     unique_carriers |-> <<>>,
     filtered_unique_carriers_for_selection |-> <<>>,
     search_query |-> <<>>,
     search_filtered_carriers |-> <<>>,
     carrier_default |-> <<>>,
     selected_carriers |-> <<>>,
     download_rows |-> <<>>,
     network_source_data |-> <<>>,
     net |-> <<>>,
     messages |-> {}]

\* The run without an uploaded file: lines 159 and 687-689.
NoFileView ==
    [EmptyView EXCEPT !.status = "complete", !.messages = {MsgUpload}]

Init ==
    /\ pc = "start"
    /\ df = "None"
    /\ columns = <<>>
    /\ rows = <<>>
    /\ carrier_data = EmptyIndex
    /\ all_brokers_to = {}
    /\ all_brokers_through = {}
    /\ all_broker_entities = {}
    /\ all_relationship_owners = {}
    /\ error = <<>>
    /\ exception = "none"
    /\ download_rows = <<>>
    /\ uploaded_file = NoFile
    /\ cache = <<>>
    /\ session_state = DefaultSessionState
    /\ view = NoFileView

index_vars ==
    <<carrier_data, all_brokers_to, all_brokers_through, all_broker_entities,
      all_relationship_owners>>

\* pd.read_csv / pd.read_excel decode the upload into a table.
ReadFile(ft, header) ==
    /\ pc = "start"
    /\ ft \in {"csv", "xlsx"}
    /\ df' = "DataFrame"
    /\ columns' = header
    /\ pc' = "read"
    /\ UNCHANGED <<rows, index_vars, error, exception, download_rows>>
    /\ UNCHANGED session_vars

\* pd.read_csv / pd.read_excel raise on bytes they cannot decode; nothing
\* in the script catches it.
ReadFileFails(ft) ==
    /\ pc = "start"
    /\ ft \in {"csv", "xlsx"}
    /\ exception' = "ParserError"
    /\ pc' = "uncaught"
    /\ UNCHANGED <<df, columns, rows, index_vars, error, download_rows>>
    /\ UNCHANGED session_vars

\* Neither branch of the if/elif is taken: df stays None.
ReadFileUnknownType(ft) ==
    /\ pc = "start"
    /\ ft \notin {"csv", "xlsx"}
    /\ pc' = "read"
    /\ UNCHANGED <<df, columns, rows, index_vars, error, exception, download_rows>>
    /\ UNCHANGED session_vars

\* df.columns = df.columns.str.strip() on None
StripColumnsOfNone ==
    /\ pc = "read"
    /\ df = "None"
    /\ exception' = "AttributeError"
    /\ pc' = "uncaught"
    /\ UNCHANGED <<df, columns, rows, index_vars, error, download_rows>>
    /\ UNCHANGED session_vars

\* A required column is missing: st.error, st.stop.
CheckColumnsFails ==
    /\ pc = "read"
    /\ df = "DataFrame"
    /\ columns' = StripAll(columns)
    /\ MissingCols(columns') # <<>>
    /\ error' = MissingCols(columns')
    /\ pc' = "stopped"
    /\ UNCHANGED <<df, rows, index_vars, exception, download_rows>>
    /\ UNCHANGED session_vars

\* All required columns are there: the accumulators are created.
CheckColumnsPasses ==
    /\ pc = "read"
    /\ df = "DataFrame"
    /\ columns' = StripAll(columns)
    /\ MissingCols(columns') = <<>>
    /\ carrier_data' = EmptyState.carrier_data
    /\ all_brokers_to' = EmptyState.all_brokers_to
    /\ all_brokers_through' = EmptyState.all_brokers_through
    /\ all_broker_entities' = EmptyState.all_broker_entities
    /\ all_relationship_owners' = EmptyState.all_relationship_owners
    /\ pc' = "loop"
    /\ UNCHANGED <<df, rows, error, exception, download_rows>>
    /\ UNCHANGED session_vars

CurrentState ==
    [carrier_data |-> carrier_data,
     all_brokers_to |-> all_brokers_to,
     all_brokers_through |-> all_brokers_through,
     all_broker_entities |-> all_broker_entities,
     all_relationship_owners |-> all_relationship_owners]

\* One turn of the loop on the next row of the table.
NextRow(row) ==
    /\ pc = "loop"
    /\ Len(rows) < MaxRows
    /\ rows' = Append(rows, row)
    /\ LET st == ProcessRow(CurrentState, Len(rows), row)
       IN  /\ carrier_data' = st.carrier_data
           /\ all_brokers_to' = st.all_brokers_to
           /\ all_brokers_through' = st.all_brokers_through
           /\ all_broker_entities' = st.all_broker_entities
           /\ all_relationship_owners' = st.all_relationship_owners
    /\ UNCHANGED <<pc, df, columns, error, exception, download_rows>>
    /\ UNCHANGED session_vars

\* The table is exhausted: the sets become sorted lists and the function
\* returns.
Finish ==
    /\ pc = "loop"
    /\ carrier_data' = SortEntries(carrier_data)
    /\ pc' = "done"
    /\ UNCHANGED <<df, columns, rows, all_brokers_to,
                   all_brokers_through, all_broker_entities,
                   all_relationship_owners, error, exception, download_rows>>
    /\ UNCHANGED session_vars

\* The sequences without repetition over a set: the orders in which the
\* carriers of a multiselect can be chosen.
RECURSIVE Selections(_)
Selections(S) ==
    {<<>>} \cup UNION {{<<c>> \o t : t \in Selections(S \ {c})} : c \in S}

\* The function has returned and the script builds the download rows of
\* the selected carriers.
BuildDownloadRows(selected_carriers) ==
    /\ pc = "done"
    /\ selected_carriers # <<>>
    /\ download_rows' =
          [i \in 1..Len(selected_carriers) |->
              DownloadRow(selected_carriers[i], carrier_data[selected_carriers[i]])]
    /\ pc' = "rendered"
    /\ UNCHANGED <<df, columns, rows, index_vars, error, exception>>
    /\ UNCHANGED session_vars

Next ==
    \/ \E ft \in FileTypes, header \in Headers : ReadFile(ft, header)
    \/ \E ft \in FileTypes : ReadFileFails(ft)
    \/ \E ft \in FileTypes : ReadFileUnknownType(ft)
    \/ StripColumnsOfNone
    \/ CheckColumnsFails
    \/ CheckColumnsPasses
    \/ \E row \in Rows : NextRow(row)
    \/ Finish
    \/ \E sel \in Selections(DOMAIN carrier_data) : BuildDownloadRows(sel)

Spec == Init /\ [][Next]_vars

(***************************************************************************)
(* The browser session: every interaction reruns the script from the top   *)
(***************************************************************************)
\* str.lower(), on the letters of the model's alphabet.
Lower(c) ==
    CASE c = "A" -> "a"
      [] c = "B" -> "b"
      [] c = "C" -> "c"
      [] c = "D" -> "d"
      [] c = "I" -> "i"
      [] c = "U" -> "u"
      [] OTHER -> c

LowerStr(s) == [i \in 1..Len(s) |-> Lower(s[i])]

\* `sub in s` of two strings.
Contains(sub, s) ==
    \E i \in 0..(Len(s) - Len(sub)) : SubSeq(s, i + 1, i + Len(sub)) = sub

\* One row of an uploaded table.
Row(carrier, to, through, entity, owner) ==
    [k \in RowKeys |->
        CASE k = "Carrier" -> carrier
          [] k = "Brokers to" -> to
          [] k = "Brokers through" -> through
          [] k = "broker entity of" -> entity
          [] k = "relationship owner" -> owner]

\* The files the user uploads in a session: the extension of the name and
\* the table the bytes decode to.  In FileA the name x is a carrier and a
\* broker, and no carrier passes the filters 'Brokers to' = x together with
\* 'Brokers through' = w.
FileA ==
    [type |-> "csv",
     table |-> <<Row(Text(<<"a">>), Text(<<"x">>), NaN, Text(<<"e">>),
                     Text(<<"f">>)),
                 Row(NaN, NaN, Text(<<"w">>), Text(<<"e">>), NaN),
                 Row(Text(<<"x">>), Text(<<"y", ",", " ", "x">>),
                     Text(<<"x">>), NaN, Text(<<"f">>))>>]

FileB ==
    [type |-> "xlsx",
     table |-> <<Row(Text(<<"b">>), Text(<<"y">>), NaN, NaN, Text(<<"d">>)),
                 Row(Text(<<"a">>), Text(<<"y">>), NaN, Text(<<"f">>),
                     NaN)>>]

\* A file with a header and no row.
FileC == [type |-> "csv", table |-> <<>>]

SessionFiles == {FileA, FileB, FileC}

\* What the user types into the search box.
SearchTexts == {<<>>, <<"A">>, <<"u">>, <<" ", "x", " ">>, <<"b", "b">>}

\* @st.cache_data: the memo key is the arguments of the call, the uploaded
\* bytes and the file type.
CacheKeyTypeOnly(file) == file.type

CacheKey(file) == <<file.table, file.type>>

\* The memo table after a call of load_and_process_data: the function runs
\* only for a key the table does not hold yet.
Memoize(memo, file) ==
    [key \in DOMAIN memo \cup {CacheKey(file)} |->
        IF key \in DOMAIN memo THEN memo[key] ELSE LoadAndProcess(file.table)]

\* The st.session_state key of the sidebar filter of a relationship field.
FilterKey(k) ==
    CASE k = "Brokers to" -> "filter_brokers_to_val"
      [] k = "Brokers through" -> "filter_brokers_through_val"
      [] k = "broker entity of" -> "filter_broker_entity_val"
      [] k = "relationship owner" -> "filter_relationship_owner_val"

\* The options of the sidebar filter of a field: the sorted global set.
FilterOptions(loaded, k) ==
    CASE k = "Brokers to" -> Sorted(loaded.all_brokers_to)
      [] k = "Brokers through" -> Sorted(loaded.all_brokers_through)
      [] k = "broker entity of" -> Sorted(loaded.all_broker_entities)
      [] k = "relationship owner" -> Sorted(loaded.all_relationship_owners)

\* st.multiselect raises StreamlitAPIException when a value of `default` is
\* not one of `options`.
DefaultNotInOptions(default, options) ==
    \E v \in default : v \notin Range(options)

\* The sidebar filters are created in this order; the first whose default,
\* the value kept in st.session_state, is not among its options ends the
\* run.  0: none does.
FirstStaleFilter(loaded, ss) ==
    IF \E i \in 1..Len(RelationKeys) :
          DefaultNotInOptions(ss[FilterKey(RelationKeys[i])],
                              FilterOptions(loaded, RelationKeys[i]))
    THEN CHOOSE i \in 1..Len(RelationKeys) :
            /\ DefaultNotInOptions(ss[FilterKey(RelationKeys[i])],
                                   FilterOptions(loaded, RelationKeys[i]))
            /\ \A j \in 1..(i - 1) :
                  ~DefaultNotInOptions(ss[FilterKey(RelationKeys[j])],
                                       FilterOptions(loaded, RelationKeys[j]))
    ELSE 0

\* One of the four tests of the filter loop: an empty selection passes every
\* carrier, another one the carriers with a value in it.
PassesFilter(info, k, selected) ==
    selected = {} \/ \E b \in Range(info[k]) : b \in selected

\* include_carrier with `or` in place of the four successive tests.
IncludeCarrierAny(info, ss) ==
    \E k \in Range(RelationKeys) : PassesFilter(info, k, ss[FilterKey(k)])

\* include_carrier at the end of the loop body.
IncludeCarrier(info, ss) ==
    \A k \in Range(RelationKeys) : PassesFilter(info, k, ss[FilterKey(k)])

\* filtered_unique_carriers_for_selection, and the keys of
\* filtered_carrier_data_for_viz in their order of insertion.
FilteredCarriers(cd, unique_carriers, ss) ==
    Sorted(Range(SelectSeq(unique_carriers,
                           LAMBDA carrier : IncludeCarrier(cd[carrier], ss))))

\* search_filtered_carriers, compared as the strings are.
SearchCaseSensitive(filtered, search_query) ==
    SelectSeq(filtered, LAMBDA carrier : Contains(search_query, carrier))

\* search_filtered_carriers
SearchFilter(filtered, search_query) ==
    SelectSeq(filtered,
              LAMBDA carrier :
                  Contains(LowerStr(search_query), LowerStr(carrier)))

\* The `default` of the carrier multiselect.
CarrierDefault(ss, search_query) ==
    IF search_query = ss.carrier_search_input_val
    THEN ss.carrier_multiselect_val
    ELSE <<>>

\* What the carrier multiselect returns.  A widget created with the options
\* and the default of the last run is the same widget and keeps the value
\* the user gave it; with other arguments it is a new widget and starts
\* from its default.
CarrierWidgetValue(ss, last, options, default) ==
    IF /\ "carrier_multiselect_val" \in last.widgets
       /\ last.search_filtered_carriers = options
       /\ last.carrier_default = default
    THEN ss.carrier_multiselect_val
    ELSE default

\* download_rows of the details section.
DownloadRows(cd, selected_carriers) ==
    LET found == SelectSeq(selected_carriers,
                           LAMBDA carrier : carrier \in DOMAIN cd)
    IN  [i \in 1..Len(found) |-> DownloadRow(found[i], cd[found[i]])]

\* The keys of network_source_data, in the order of the dict.
NetworkSource(filtered, selected_carriers) ==
    IF selected_carriers # <<>>
    THEN SelectSeq(filtered, LAMBDA carrier : carrier \in Range(selected_carriers))
    ELSE filtered

\* The pyvis network under construction: the calls made on it so far and
\* the set added_nodes.
EmptyNet == [calls |-> <<>>, added_nodes |-> {}]

\* `if name not in added_nodes: net.add_node(...); added_nodes.add(name)`
AddNode(g, name, role) ==
    IF name \in g.added_nodes THEN g
    ELSE [calls |-> Append(g.calls, [op |-> "add_node", id |-> name,
                                     role |-> role]),
          added_nodes |-> g.added_nodes \cup {name}]

\* net.add_edge(source, to, label)
AddEdge(g, source, to, label) ==
    [g EXCEPT !.calls = Append(@, [op |-> "add_edge", source |-> source,
                                   to |-> to, label |-> label])]

\* One of the four inner loops, with the edge added before the node.
RECURSIVE AddRelationsEdgeFirst(_, _, _, _, _)
AddRelationsEdgeFirst(g, carrier, names, role, label) ==
    IF names = <<>> THEN g
    ELSE LET name == Head(names)
             edged == IF role = "owner" THEN AddEdge(g, name, carrier, label)
                      ELSE AddEdge(g, carrier, name, label)
         IN  AddRelationsEdgeFirst(AddNode(edged, name, role), carrier,
                                   Tail(names), role, label)

\* One of the four inner loops: the node of each name that is new, then the
\* edge, owner -> carrier or carrier -> name.
RECURSIVE AddRelations(_, _, _, _, _)
AddRelations(g, carrier, names, role, label) ==
    IF names = <<>> THEN g
    ELSE LET name == Head(names)
             noded == AddNode(g, name, role)
         IN  AddRelations(IF role = "owner"
                          THEN AddEdge(noded, name, carrier, label)
                          ELSE AddEdge(noded, carrier, name, label),
                          carrier, Tail(names), role, label)

\* The body of the loop over network_source_data.
AddCarrier(g, carrier, info) ==
    LET g0 == AddNode(g, carrier, "carrier")
        g1 == AddRelations(g0, carrier, info["relationship owner"], "owner",
                           "Relationship owner")
        g2 == AddRelations(g1, carrier, info["Brokers to"], "broker_to",
                           "Brokers to")
        g3 == AddRelations(g2, carrier, info["Brokers through"],
                           "broker_through", "Brokers through")
    IN  AddRelations(g3, carrier, info["broker entity of"], "entity",
                     "Broker entity of")

\* The loop over network_source_data.
RECURSIVE BuildNetwork(_, _)
BuildNetwork(cd, carriers) ==
    IF carriers = <<>> THEN EmptyNet
    ELSE LET last == carriers[Len(carriers)]
         IN  AddCarrier(BuildNetwork(cd, SubSeq(carriers, 1, Len(carriers) - 1)),
                        last, cd[last])

\* The keys of the sidebar filters created before filter number `stale`
\* raised; all four when none did.
SidebarWidgets(stale) ==
    {FilterKey(RelationKeys[i]) :
        i \in 1..(IF stale = 0 THEN Len(RelationKeys) ELSE stale - 1)}

\* One run of the script from line 163 on, for the uploaded file, what
\* load_and_process_data returned, st.session_state and the widgets of the
\* last run.  The charts of lines 436-598 only draw
\* filtered_carrier_data_for_viz and are left out.
Rerun(file, loaded, ss, last) ==
    IF file = NoFile THEN NoFileView
    ELSE
    LET cd == loaded.carrier_data
        unique_carriers == Sorted(DOMAIN cd)
        stale == FirstStaleFilter(loaded, ss)
        sidebar == [EmptyView EXCEPT !.unique_carriers = unique_carriers,
                                     !.widgets = SidebarWidgets(stale)]
    IN  IF stale # 0 THEN [sidebar EXCEPT !.status = "uncaught"]
        ELSE
        LET filtered == FilteredCarriers(cd, unique_carriers, ss)
            search_query == Strip(ss.carrier_search_input_val)
            search_filtered_carriers == SearchFilter(filtered, search_query)
            filtering ==
                \/ search_query # <<>>
                \/ \E k \in Range(RelationKeys) : ss[FilterKey(k)] # {}
            found ==
                (IF filtering THEN {MsgFound} ELSE {})
                \cup (IF filtering /\ search_filtered_carriers = <<>>
                      THEN {MsgAdjust} ELSE {})
            searched ==
                [sidebar EXCEPT
                    !.widgets = @ \cup {"carrier_search_input_val"},
                    !.filtered_unique_carriers_for_selection = filtered,
                    !.search_query = search_query,
                    !.search_filtered_carriers = search_filtered_carriers,
                    !.messages = found]
            no_widget == search_filtered_carriers = <<>> /\ search_query # <<>>
            default == CarrierDefault(ss, search_query)
        IN  IF ~no_widget
               /\ DefaultNotInOptions(Range(default), search_filtered_carriers)
            THEN [searched EXCEPT !.status = "uncaught",
                                  !.carrier_default = default]
            ELSE
            LET selected_carriers ==
                    IF no_widget THEN <<>>
                    ELSE CarrierWidgetValue(ss, last, search_filtered_carriers,
                                            default)
                network_source_data == NetworkSource(filtered, selected_carriers)
            IN  [searched EXCEPT
                    !.status = "complete",
                    !.widgets =
                        @ \cup (IF no_widget THEN {}
                                ELSE {"carrier_multiselect_val"}),
                    !.carrier_default = IF no_widget THEN <<>> ELSE default,
                    !.selected_carriers = selected_carriers,
                    !.download_rows = DownloadRows(cd, selected_carriers),
                    !.network_source_data = network_source_data,
                    !.net = BuildNetwork(cd, network_source_data).calls,
                    !.messages =
                        @ \cup (IF selected_carriers = <<>>
                                THEN {MsgSelect} ELSE {})
                          \cup (IF network_source_data # <<>> THEN {}
                                ELSE IF selected_carriers # <<>>
                                     THEN {MsgNoSelectedData}
                                     ELSE {MsgNoNetworkData})]

\* st.session_state at the end of a run: a key whose widget the run did not
\* create is dropped, and lines 169-180 initialise it again; the key of the
\* carrier multiselect holds what the widget returned.
SessionAfter(ss, v) ==
    [key \in DOMAIN ss |->
        IF key \notin v.widgets THEN DefaultSessionState[key]
        ELSE IF key = "carrier_multiselect_val" THEN v.selected_carriers
        ELSE ss[key]]

\* What the call of line 161 returns: the entry of the memo table.
CachedLoad(memo, file) ==
    IF file = NoFile THEN EmptyState ELSE memo[CacheKey(file)]

\* A rerun of the script: every variable of the run is computed anew.
Run(file, ss) ==
    /\ uploaded_file' = file
    /\ cache' = IF file = NoFile THEN cache ELSE Memoize(cache, file)
    /\ carrier_data' = CachedLoad(cache', file).carrier_data
    /\ all_brokers_to' = CachedLoad(cache', file).all_brokers_to
    /\ all_brokers_through' = CachedLoad(cache', file).all_brokers_through
    /\ all_broker_entities' = CachedLoad(cache', file).all_broker_entities
    /\ all_relationship_owners' =
          CachedLoad(cache', file).all_relationship_owners
    /\ view' = Rerun(file, CurrentState', ss, view)
    /\ session_state' = SessionAfter(ss, view')
    /\ rows' = file.table
    /\ df' = IF file = NoFile THEN "None" ELSE "DataFrame"
    /\ columns' = IF file = NoFile THEN <<>> ELSE expected_columns
    /\ download_rows' = view'.download_rows
    /\ pc' = IF file = NoFile THEN "no_file"
             ELSE IF view'.status = "uncaught" THEN "uncaught" ELSE "rendered"
    /\ exception' = IF view'.status = "uncaught" THEN "StreamlitAPIException"
                    ELSE "none"
    /\ error' = <<>>

SessionInit ==
    /\ pc = "no_file"
    /\ df = "None"
    /\ columns = <<>>
    /\ rows = <<>>
    /\ carrier_data = EmptyIndex
    /\ all_brokers_to = {}
    /\ all_brokers_through = {}
    /\ all_broker_entities = {}
    /\ all_relationship_owners = {}
    /\ error = <<>>
    /\ exception = "none"
    /\ download_rows = <<>>
    /\ uploaded_file = NoFile
    /\ cache = <<>>
    /\ session_state = DefaultSessionState
    /\ view = NoFileView

\* The user puts a file into the uploader, or another one in its place.
Upload(file) ==
    /\ file # uploaded_file
    /\ Run(file, session_state)

\* The user takes the file out of the uploader.
RemoveFile ==
    /\ uploaded_file # NoFile
    /\ Run(NoFile, session_state)

\* The user changes the selection of one sidebar filter.
ChangeFilter(k, selected) ==
    /\ FilterKey(k) \in view.widgets
    /\ selected # session_state[FilterKey(k)]
    /\ Run(uploaded_file, [session_state EXCEPT ![FilterKey(k)] = selected])

\* The user types another text into the search box.
ChangeSearch(text) ==
    /\ "carrier_search_input_val" \in view.widgets
    /\ text # session_state.carrier_search_input_val
    /\ Run(uploaded_file,
           [session_state EXCEPT !.carrier_search_input_val = text])

\* The user changes the carriers chosen in the multiselect.
ChangeSelection(selected) ==
    /\ "carrier_multiselect_val" \in view.widgets
    /\ selected # session_state.carrier_multiselect_val
    /\ Run(uploaded_file,
           [session_state EXCEPT !.carrier_multiselect_val = selected])

\* clear_filters, the callback of the button, and the rerun that follows.
ClearFilters ==
    /\ uploaded_file # NoFile
    /\ Run(uploaded_file, DefaultSessionState)

SessionNext ==
    \/ \E file \in SessionFiles : Upload(file)
    \/ RemoveFile
    \/ \E k \in Range(RelationKeys) :
          \E selected \in SUBSET Range(FilterOptions(CurrentState, k)) :
              ChangeFilter(k, selected)
    \/ \E text \in SearchTexts : ChangeSearch(text)
    \/ \E selected \in Selections(Range(view.search_filtered_carriers)) :
          ChangeSelection(selected)
    \/ ClearFilters

Session == SessionInit /\ [][SessionNext]_vars

(***************************************************************************)
(* Vocabulary of the properties                                            *)
(***************************************************************************)
Indexing == pc \in {"loop", "done"}

\* The members of a carrier's field, before and after the final sort.
FieldSet(c, k) ==
    IF pc = "loop" THEN carrier_data[c][k] ELSE Range(carrier_data[c][k])

\* A cell that is missing, empty or whitespace-only.
Blank(cell) == cell.na \/ \A i \in 1..Len(cell.text) : cell.text[i] = " "

\* The text of a cell without its leading and trailing blanks.
Trimmed(s) ==
    LET inner == {i \in 1..Len(s) : s[i] # " "}
    IN  IF inner = {} THEN <<>>
        ELSE SubSeq(s, CHOOSE i \in inner : \A j \in inner : i <= j,
                       CHOOSE i \in inner : \A j \in inner : i >= j)

NormalizedCarrier(row) ==
    IF Blank(row["Carrier"]) THEN UnnamedCarrier ELSE Trimmed(row["Carrier"].text)

BlankRow(row) ==
    /\ Blank(row["Carrier"])
    /\ \A k \in Range(RelationKeys) : Blank(row[k])

\* The pieces of a text between its commas.
Pieces(s) ==
    LET cut == {0, Len(s) + 1} \cup {i \in 1..Len(s) : s[i] = ","}
    IN  {SubSeq(s, i + 1, j - 1) :
            <<i, j>> \in {p \in cut \X cut :
                             p[1] < p[2] /\ \A m \in cut : ~(p[1] < m /\ m < p[2])}}

\* The tokens a cell contributes to field k.
Contributed(k, cell) ==
    IF Blank(cell) THEN {}
    ELSE IF k \in ListKeys
         THEN {Trimmed(piece) : piece \in Pieces(cell.text)} \ {<<>>}
         ELSE {Trimmed(cell.text)}

StrictlyAscending(l) == \A i \in 1..(Len(l) - 1) : StrLess(l[i], l[i + 1])

GlobalSet(k) ==
    CASE k = "Brokers to" -> all_brokers_to
      [] k = "Brokers through" -> all_brokers_through
      [] k = "broker entity of" -> all_broker_entities
      [] k = "relationship owner" -> all_relationship_owners

LastRow == rows[Len(rows)]

(***************************************************************************)
(* C1                                                                      *)
(***************************************************************************)
\* C1: when the function returns, every row that is not a blank row has an
\* entry under its normalized carrier name, every entry comes from such a
\* row, and each of its four fields is the strictly ascending sequence of
\* exactly the tokens contributed by the rows of that carrier.
C1_MergedSortedUnion ==
    pc = "done" =>
        /\ \A i \in 1..Len(rows) :
              ~BlankRow(rows[i]) => NormalizedCarrier(rows[i]) \in DOMAIN carrier_data
        /\ \A c \in DOMAIN carrier_data :
              /\ \E i \in 1..Len(rows) : NormalizedCarrier(rows[i]) = c
              /\ \A k \in Range(RelationKeys) :
                    /\ StrictlyAscending(carrier_data[c][k])
                    /\ Range(carrier_data[c][k]) =
                          UNION {Contributed(k, rows[i][k]) :
                                    i \in {j \in 1..Len(rows) :
                                              NormalizedCarrier(rows[j]) = c}}

\* Two rows whose carrier cells differ merge into one entry, and their
\* 'Brokers to' cells "y, x" and "x" give [x, y].
C1_Witness ==
    /\ pc = "done"
    /\ Len(rows) = 2
    /\ rows[1]["Carrier"] # rows[2]["Carrier"]
    /\ NormalizedCarrier(rows[1]) = NormalizedCarrier(rows[2])
    /\ rows[1]["Brokers to"] = Text(<<"y", ",", " ", "x">>)
    /\ rows[2]["Brokers to"] = Text(<<"x">>)
    /\ DOMAIN carrier_data = {NormalizedCarrier(rows[1])}
    /\ carrier_data[NormalizedCarrier(rows[1])]["Brokers to"] = <<<<"x">>, <<"y">>>>

(***************************************************************************)
(* C2                                                                      *)
(***************************************************************************)
\* A download row read back as a row of a table: an empty field is read
\* as a missing value, any other field as its text.
ReadBack(d) == [k \in RowKeys |-> IF d[k] = <<>> THEN NaN ELSE Text(d[k])]

\* The index of the one-row table made of download row d.
Reindexed(d) == LoadAndProcess(<<ReadBack(d)>>).carrier_data

NoCommaTokens(info) ==
    \A k \in Range(RelationKeys) : \A t \in Range(info[k]) : "," \notin Range(t)

SameFields(a, b) == \A k \in Range(RelationKeys) : a[k] = b[k]

NoTokens(info) == \A k \in Range(RelationKeys) : info[k] = <<>>

\* C2 as claimed: the download row of any carrier whose tokens hold no
\* comma, indexed again, gives that carrier the four sequences it had.
\* It is stated here for the carriers that hold at least one token, which
\* the claim covers; it fails for them already.
C2_RoundTripAsClaimed ==
    \A i \in 1..Len(download_rows) :
        LET c == download_rows[i]["Carrier"]
            back == Reindexed(download_rows[i])
        IN  (NoCommaTokens(carrier_data[c]) /\ ~NoTokens(carrier_data[c])) =>
                c \in DOMAIN back /\ SameFields(back[c], carrier_data[c])

\* C2: the download row of a carrier whose tokens hold no comma and whose
\* 'broker entity of' and 'relationship owner' sequences hold at most one
\* token each, indexed again, gives that carrier the four sequences it had;
\* except that an 'Unnamed Carrier' entry with four empty sequences gives a
\* blank row, which creates no entry.
C2_RoundTrip ==
    \A i \in 1..Len(download_rows) :
        LET c == download_rows[i]["Carrier"]
            info == carrier_data[c]
            back == Reindexed(download_rows[i])
        IN  (/\ NoCommaTokens(info)
             /\ \A k \in ScalarKeys : Len(info[k]) <= 1) =>
                IF c = UnnamedCarrier /\ NoTokens(info)
                THEN back = EmptyIndex
                ELSE DOMAIN back = {c} /\ SameFields(back[c], info)

\* A carrier with two brokers and one entity has been exported.
C2_Witness ==
    \E i \in 1..Len(download_rows) :
        LET c == download_rows[i]["Carrier"]
        IN  /\ carrier_data[c]["Brokers to"] = <<<<"x">>, <<"y">>>>
            /\ download_rows[i]["Brokers to"] = <<"x", ",", " ", "y">>
            /\ carrier_data[c]["broker entity of"] = <<<<"e">>>>
            /\ NoCommaTokens(carrier_data[c])

(***************************************************************************)
(* C3                                                                      *)
(***************************************************************************)
\* C3: a turn of the loop on a row whose carrier and four relationship
\* cells are all missing, empty or whitespace-only leaves carrier_data and
\* the four global sets as they were.
C3_BlankRowSkipped ==
    [][(pc = "loop" /\ pc' = "loop" /\ Len(rows') = Len(rows) + 1
        /\ BlankRow(rows'[Len(rows')]))
          => UNCHANGED index_vars]_vars

\* A blank row with a whitespace-only carrier has been read after a row
\* that made an entry.
C3_Witness ==
    /\ pc = "loop"
    /\ Len(rows) = 2
    /\ BlankRow(LastRow)
    /\ LastRow["Carrier"] = Text(<<" ">>)
    /\ \E k \in Range(RelationKeys) : LastRow[k] = Text(<<" ">>)
    /\ DOMAIN carrier_data = {<<"a">>}
    /\ all_brokers_to = {<<"x">>, <<"y">>}

(***************************************************************************)
(* C4                                                                      *)
(***************************************************************************)
\* C4: every row read so far whose carrier is missing, empty or
\* whitespace-only and whose relationship owner is not has its stripped
\* owner in the 'relationship owner' field of the entry keyed
\* 'Unnamed Carrier'.
C4_SentinelCollapse ==
    Indexing =>
        \A i \in 1..Len(rows) :
            (Blank(rows[i]["Carrier"]) /\ ~Blank(rows[i]["relationship owner"])) =>
                /\ UnnamedCarrier \in DOMAIN carrier_data
                /\ Trimmed(rows[i]["relationship owner"].text)
                      \in FieldSet(UnnamedCarrier, "relationship owner")

\* A whitespace-only carrier and a missing carrier, each with an owner,
\* have merged into the 'Unnamed Carrier' entry.
C4_Witness ==
    /\ pc = "done"
    /\ Len(rows) = 2
    /\ rows[1]["Carrier"] = Text(<<" ">>)
    /\ rows[2]["Carrier"] = NaN
    /\ DOMAIN carrier_data = {UnnamedCarrier}
    /\ carrier_data[UnnamedCarrier]["relationship owner"] =
          <<<<"d", ",", "e">>, <<"f">>>>

(***************************************************************************)
(* C5                                                                      *)
(***************************************************************************)
\* The required columns that no header of the table matches once the
\* header is trimmed.
RequiredMissing(header) ==
    {col \in Range(expected_columns) :
        \A j \in 1..Len(header) : Trimmed(header[j]) # col}

\* C5: the check of a decoded table stops the run exactly when a required
\* column is missing after trimming, whatever other columns there are; the
\* error then names every missing required column and no other, no index
\* has been built, and a stopped run takes no further step.
C5_SchemaFailure ==
    [][/\ pc # "stopped"
       /\ (pc = "read" /\ df = "DataFrame") =>
             IF RequiredMissing(columns) # {}
             THEN /\ pc' = "stopped"
                  /\ Range(error') = RequiredMissing(columns)
                  /\ Len(error') = Cardinality(RequiredMissing(columns))
                  /\ carrier_data' = EmptyIndex /\ rows' = <<>>
             ELSE pc' = "loop" /\ error' = <<>>]_vars

\* A table with one more column lacks 'Brokers through' and 'broker entity
\* of': the run has stopped naming these two.
C5_Witness ==
    /\ pc = "stopped"
    /\ ExtraColumn \in Range(columns)
    /\ error = <<ColBrokersThrough, ColBrokerEntityOf>>
    /\ Range(columns) =
          {ExtraColumn, ColCarrier, ColBrokersTo, ColRelationshipOwner}

(***************************************************************************)
(* C6                                                                      *)
(***************************************************************************)
\* The tables that hold the rows of `table` in some order.
Reorderings(table) ==
    {[i \in 1..Len(table) |-> table[f[i]]] : f \in Permutations(1..Len(table))}

\* C6: the index returned for the rows read is the one the function
\* returns for these rows in any order: the same carrier keys, the same
\* four sequences for every carrier and the same four global sets.
C6_RowOrderIndependent ==
    pc = "done" =>
        \A table \in Reorderings(rows) :
            LET again == LoadAndProcess(table)
            IN  /\ DOMAIN again.carrier_data = DOMAIN carrier_data
                /\ \A c \in DOMAIN carrier_data :
                      SameFields(again.carrier_data[c], carrier_data[c])
                /\ \A k \in Range(RelationKeys) : again[
                      CASE k = "Brokers to" -> "all_brokers_to"
                        [] k = "Brokers through" -> "all_brokers_through"
                        [] k = "broker entity of" -> "all_broker_entities"
                        [] k = "relationship owner" -> "all_relationship_owners"]
                      = GlobalSet(k)

\* Two different rows of one carrier, each adding an entity the other does
\* not, have been indexed.
C6_Witness ==
    /\ pc = "done"
    /\ Len(rows) = 2
    /\ NormalizedCarrier(rows[1]) = NormalizedCarrier(rows[2])
    /\ rows[1]["broker entity of"] = Text(<<"f">>)
    /\ rows[2]["broker entity of"] = Text(<<" ", "e">>)
    /\ carrier_data[NormalizedCarrier(rows[1])]["broker entity of"] =
          <<<<"e">>, <<"f">>>>
    /\ all_broker_entities = {<<"e">>, <<"f">>}

(***************************************************************************)
(* C7                                                                      *)
(***************************************************************************)
WellFormedToken(t) == t # <<>> /\ t[1] # " " /\ t[Len(t)] # " "

\* C7: at every turn of the loop and at the end, every member of a
\* carrier's field and of a global set is non-empty and neither starts nor
\* ends with a blank, and no member of a 'Brokers to' or 'Brokers through'
\* set holds a comma.
C7_TokenInvariant ==
    Indexing =>
        \A k \in Range(RelationKeys) :
            \A t \in GlobalSet(k)
                     \cup UNION {FieldSet(c, k) : c \in DOMAIN carrier_data} :
                /\ WellFormedToken(t)
                /\ k \in ListKeys => "," \notin Range(t)

\* The cell "y, x" has been split into its two brokers, and a cell made of
\* a comma has added none.
C7_Witness ==
    /\ pc = "loop"
    /\ Len(rows) = 2
    /\ rows[1]["Brokers to"] = Text(<<"y", ",", " ", "x">>)
    /\ rows[2]["Brokers to"] = Text(<<",">>)
    /\ all_brokers_to = {<<"x">>, <<"y">>}

(***************************************************************************)
(* C8                                                                      *)
(***************************************************************************)
\* The whole stripped text of a cell, if it has any.
WholeCell(cell) == IF Blank(cell) THEN {} ELSE {Trimmed(cell.text)}

\* C8: a turn of the loop adds to the 'broker entity of' and 'relationship
\* owner' sets of the row's carrier, and to the two global sets, the whole
\* stripped text of the row's cell and nothing else, commas or not; the
\* sets of the other carriers keep their members.
C8_ScalarNotSplit ==
    [][(pc = "loop" /\ pc' = "loop" /\ Len(rows') = Len(rows) + 1) =>
          LET row == rows'[Len(rows')]
              before(c, k) ==
                  IF c \in DOMAIN carrier_data THEN carrier_data[c][k] ELSE {}
          IN  /\ \A k \in ScalarKeys : \A c \in DOMAIN carrier_data' :
                    carrier_data'[c][k] =
                        before(c, k) \cup
                        (IF c = NormalizedCarrier(row) THEN WholeCell(row[k]) ELSE {})
              /\ all_broker_entities' =
                    all_broker_entities \cup WholeCell(row["broker entity of"])
              /\ all_relationship_owners' =
                    all_relationship_owners \cup WholeCell(row["relationship owner"])]_vars

\* The owner cell "d,e" has been stored as the one token "d,e".
C8_Witness ==
    /\ pc = "loop"
    /\ Len(rows) = 1
    /\ rows[1]["relationship owner"] = Text(<<"d", ",", "e">>)
    /\ all_relationship_owners = {<<"d", ",", "e">>}
    /\ \E c \in DOMAIN carrier_data :
          carrier_data[c]["relationship owner"] = {<<"d", ",", "e">>}

(***************************************************************************)
(* C9                                                                      *)
(***************************************************************************)
\* C9: at every turn of the loop and at the end, each global set holds
\* exactly the members of that field over all the entries of carrier_data.
C9_GlobalAccumulators ==
    Indexing =>
        \A k \in Range(RelationKeys) :
            GlobalSet(k) = UNION {FieldSet(c, k) : c \in DOMAIN carrier_data}

\* Two carriers have entries, and the global 'Brokers through' set came
\* from one of them while the global 'Brokers to' set came from the other.
C9_Witness ==
    /\ pc = "loop"
    /\ DOMAIN carrier_data = {UnnamedCarrier, <<"a">>}
    /\ carrier_data[<<"a">>]["Brokers through"] = {<<"x">>}
    /\ carrier_data[UnnamedCarrier]["Brokers through"] = {}
    /\ carrier_data[UnnamedCarrier]["Brokers to"] = {<<"x">>, <<"y">>}
    /\ all_brokers_through = {<<"x">>}
    /\ all_brokers_to = {<<"x">>, <<"y">>}

(***************************************************************************)
(* C10                                                                     *)
(***************************************************************************)
\* C10: no run of the script is ended by an exception that nothing in the
\* script catches: an upload that cannot be decoded, or whose type is
\* neither csv nor xlsx, ends in the error state that st.error and st.stop
\* produce.
C10_ParseFailureHandled == pc # "uncaught" /\ exception = "none"

(***************************************************************************)
(* Vocabulary of the session properties                                    *)
(***************************************************************************)
\* The last run created the search box: it got past the sidebar filters and
\* computed the filtered and the search-filtered lists.
Searched == "carrier_search_input_val" \in view.widgets

\* The selection of the sidebar filter of a field.
Selection(k) == session_state[FilterKey(k)]

\* The carriers a filter selection allows: all of them when it is empty,
\* else those with a value of the field in it.
Allowed(c, k) ==
    Selection(k) # {} => FieldSet(c, k) \cap Selection(k) # {}

(***************************************************************************)
(* C11                                                                     *)
(***************************************************************************)
\* C11: after every interaction of a session (upload, filter, search,
\* selection, clear) the carrier index and the four global sets in use are
\* those of indexing the file that is uploaded now: nothing of an earlier
\* file is left, and the interactions that leave the file alone leave them
\* alone.
C11_IndexOfCurrentFile ==
    uploaded_file # NoFile => CurrentState = LoadAndProcess(uploaded_file.table)

\* FileB is shown after FileA had been indexed, with a filter set.
C11_Witness ==
    /\ uploaded_file = FileB
    /\ CacheKey(FileA) \in DOMAIN cache
    /\ session_state.filter_brokers_to_val # {}

(***************************************************************************)
(* C12                                                                     *)
(***************************************************************************)
\* C12: whenever no file is uploaded, or the filters and the search match no
\* carrier, or the run ends with no carrier selected, the run completes and
\* shows a message of st.info; it builds no download row, and no network
\* when no carrier passes the filters.
C12_EmptyStatesRender ==
    (\/ uploaded_file = NoFile
     \/ Searched /\ view.search_filtered_carriers = <<>>
     \/ view.status = "complete" /\ view.selected_carriers = <<>>)
        => /\ view.status = "complete"
           /\ view.messages \cap
                  {MsgUpload, MsgSelect, MsgNoNetworkData, MsgFound} # {}
           /\ download_rows = <<>>
           /\ view.filtered_unique_carriers_for_selection = <<>>
                  => view.net = <<>>

(***************************************************************************)
(* C13                                                                     *)
(***************************************************************************)
\* C13: a carrier is in the filtered list exactly when every filter with a
\* non-empty selection holds one of the carrier's values for its field; the
\* list is sorted, holds carriers of the index only, and holds them all when
\* the four selections are empty.
C13_GlobalFilters ==
    Searched =>
        LET filtered == view.filtered_unique_carriers_for_selection
        IN  /\ \A c \in DOMAIN carrier_data :
                  c \in Range(filtered)
                      <=> \A k \in Range(RelationKeys) : Allowed(c, k)
            /\ StrictlyAscending(filtered)
            /\ Range(filtered) \subseteq DOMAIN carrier_data
            /\ (\A k \in Range(RelationKeys) : Selection(k) = {})
                  => Range(filtered) = DOMAIN carrier_data

\* Two filters are set, one of them to two values, and some carriers pass
\* while others do not.
C13_Witness ==
    /\ Searched
    /\ Cardinality(session_state.filter_brokers_to_val) = 2
    /\ session_state.filter_relationship_owner_val # {}
    /\ Len(view.filtered_unique_carriers_for_selection) = 2
    /\ Cardinality(DOMAIN carrier_data) = 3

(***************************************************************************)
(* C14                                                                     *)
(***************************************************************************)
\* C14: in the index the function returns, an entry keyed 'Unnamed
\* Carrier' has at least one non-empty sequence: a row whose carrier
\* resolves to the sentinel and whose cells contribute no token creates no
\* entry.
C14_SentinelNeverEmpty ==
    (pc = "done" /\ UnnamedCarrier \in DOMAIN carrier_data) =>
        ~NoTokens(carrier_data[UnnamedCarrier])

(***************************************************************************)
(* C15                                                                     *)
(***************************************************************************)
\* The text occurs in the name when letters are compared without their case.
OccursIgnoringCase(text, name) ==
    \E start \in 0..(Len(name) - Len(text)) :
        \A j \in 1..Len(text) : Lower(text[j]) = Lower(name[start + j])

\* C15: the search-filtered list is the filtered list restricted to the
\* carriers whose name holds the stripped search text, case ignored (all of
\* them for an empty text); the selected carriers are among the
\* search-filtered ones, and none is selected when a non-empty text matches
\* no carrier.
C15_SearchAndSelection ==
    Searched =>
        LET text == Trimmed(session_state.carrier_search_input_val)
            filtered == view.filtered_unique_carriers_for_selection
        IN  /\ view.search_filtered_carriers =
                  SelectSeq(filtered,
                            LAMBDA name : OccursIgnoringCase(text, name))
            /\ text = <<>> => view.search_filtered_carriers = filtered
            /\ Range(view.selected_carriers)
                  \subseteq Range(view.search_filtered_carriers)
            /\ (text # <<>> /\ view.search_filtered_carriers = <<>>)
                  => view.selected_carriers = <<>>

\* The search text u keeps 'Unnamed Carrier' only, and it is selected.
C15_Witness ==
    /\ Searched
    /\ session_state.carrier_search_input_val = <<"u">>
    /\ Len(view.filtered_unique_carriers_for_selection) = 3
    /\ view.selected_carriers = <<UnnamedCarrier>>

(***************************************************************************)
(* C16                                                                     *)
(***************************************************************************)
\* The calls of net.add_node and of net.add_edge among the calls of a run.
NodeCalls == {i \in 1..Len(view.net) : view.net[i].op = "add_node"}

EdgeCalls == {i \in 1..Len(view.net) : view.net[i].op = "add_edge"}

\* The field an edge label stands for, and the role of its far end.
EdgeField(label) ==
    CASE label = "Relationship owner" -> "relationship owner"
      [] label = "Brokers to" -> "Brokers to"
      [] label = "Brokers through" -> "Brokers through"
      [] label = "Broker entity of" -> "broker entity of"

EdgeRole(label) ==
    CASE label = "Relationship owner" -> "owner"
      [] label = "Brokers to" -> "broker_to"
      [] label = "Brokers through" -> "broker_through"
      [] label = "Broker entity of" -> "entity"

\* The carrier end and the far end of an edge.
CarrierEnd(e) == IF e.label = "Relationship owner" THEN e.to ELSE e.source

FarEnd(e) == IF e.label = "Relationship owner" THEN e.source ELSE e.to

\* The carriers the graph is made of.
GraphScope ==
    IF view.selected_carriers # <<>>
    THEN Range(view.filtered_unique_carriers_for_selection)
            \cap Range(view.selected_carriers)
    ELSE Range(view.filtered_unique_carriers_for_selection)

\* C16: the graph is built from the carriers that pass the global filters,
\* from the selected ones among them when a carrier is selected; a name is
\* added as a node once, under the role it is first met with; an edge is
\* added after the nodes of both its ends, from an owner to its carrier and
\* from a carrier to its broker or entity.
C16_NetworkGraph ==
    view.status = "complete" =>
        /\ Range(view.network_source_data) = GraphScope
        /\ \A c \in GraphScope :
              \E i \in NodeCalls : view.net[i].id = c
        /\ \A i, j \in NodeCalls : view.net[i].id = view.net[j].id => i = j
        /\ \A i \in NodeCalls :
              /\ \A j \in EdgeCalls :
                    view.net[i].id \in {view.net[j].source, view.net[j].to}
                        => i < j
              /\ IF view.net[i].role = "carrier"
                 THEN view.net[i].id \in GraphScope
                 ELSE /\ i + 1 \in EdgeCalls
                      /\ FarEnd(view.net[i + 1]) = view.net[i].id
                      /\ EdgeRole(view.net[i + 1].label) = view.net[i].role
        /\ \A j \in EdgeCalls :
              /\ \E i \in NodeCalls : view.net[i].id = view.net[j].source
              /\ \E i \in NodeCalls : view.net[i].id = view.net[j].to
              /\ CarrierEnd(view.net[j]) \in GraphScope
              /\ FarEnd(view.net[j])
                    \in FieldSet(CarrierEnd(view.net[j]),
                                 EdgeField(view.net[j].label))
        /\ \A c \in GraphScope : \A k \in Range(RelationKeys) :
              \A name \in FieldSet(c, k) :
                  \E j \in EdgeCalls :
                      /\ CarrierEnd(view.net[j]) = c
                      /\ FarEnd(view.net[j]) = name
                      /\ EdgeField(view.net[j].label) = k

\* Of three carriers that pass the filters one is selected, and its name is
\* the name of one of its brokers: the edge runs from the node to itself.
C16_Witness ==
    /\ view.status = "complete"
    /\ Len(view.filtered_unique_carriers_for_selection) = 3
    /\ Len(view.selected_carriers) = 1
    /\ \E j \in EdgeCalls : view.net[j].source = view.net[j].to

====
